---------------------------- MODULE Spec2Model ----------------------------
(***************************************************************************)
(* Model of Feria.py: the geographic triangle program.                     *)
(*                                                                         *)
(* Numbers.  The program computes in floating point.  The model computes   *)
(* exactly, on decimal fixed-point grids:                                  *)
(*   - a planar coordinate is an integer multiple of 10^-escala metres;    *)
(*   - an area is carried as its numerator over 2 (area_triangulo returns  *)
(*     0.5 * |det|, the model returns |det| and every comparison is made   *)
(*     on these "half units");                                             *)
(*   - np.isclose(a, b, atol=epsilon) is |a - b| <= atol + rtol * |b| with *)
(*     numpy's default rtol = 1e-5, translated to the grid exactly.        *)
(* Rounding inside np.linalg.det is not modelled: a determinant is its     *)
(* exact value.                                                            *)
(***************************************************************************)
EXTENDS Integers, Sequences, FiniteSets, TLC

VARIABLES
    pc,                \* position of main()
    locations,         \* list of (lat, lon) of the vertices found so far
    location_names,    \* list of the names typed for them
    distancias,        \* <<>> or <<d1, d2, d3>>
    area_heron,        \* <<>> or <<16 * area^2>> (the Heron radicand, see Heron)
    area_determinante, \* <<>> or <<area in half units>>
    vertices,          \* <<>> or <<v0, v1, v2>> planar
    df_puntos,         \* <<>> or <<DataFrame>>
    df_clasificados,   \* <<>> or <<DataFrame>>
    datos_json,        \* <<>> or <<export record>>
    salida,            \* the last message printed
    llamadas,          \* history: which computations have been called so far
    escala,            \* decimal exponent of the planar grid (10^-escala m)
    ga, gb, gc, gp,    \* inputs of the pure geometric functions
    resultado,         \* <<>> or <<clasificar_punto(gp, ga, gb, gc)>>
    areas              \* <<>> or the six area_triangulo values, one per permutation

vars == <<pc, locations, location_names, distancias, area_heron,
          area_determinante, vertices, df_puntos, df_clasificados, datos_json,
          salida, llamadas, escala, ga, gb, gc, gp, resultado, areas>>

mainVars == <<pc, locations, location_names, distancias, area_heron,
              area_determinante, vertices, df_puntos, df_clasificados,
              datos_json, salida, llamadas>>

geomVars == <<ga, gb, gc, gp, resultado, areas>>

-----------------------------------------------------------------------------
(* Bounds of the model *)

GridMax == 3

MaxClasificados == 2

-----------------------------------------------------------------------------
(* Arithmetic helpers *)

Abs(n) == IF n < 0 THEN -n ELSE n

RECURSIVE Pot10(_)
Pot10(n) == IF n = 0 THEN 1 ELSE 10 * Pot10(n - 1)

-----------------------------------------------------------------------------
(* area_triangulo: 0.5 * |det [[x1,x2,x3],[y1,y2,y3],[1,1,1]]| *)

Det3(m) ==
      m[1][1] * (m[2][2] * m[3][3] - m[2][3] * m[3][2])
    - m[1][2] * (m[2][1] * m[3][3] - m[2][3] * m[3][1])
    + m[1][3] * (m[2][1] * m[3][2] - m[2][2] * m[3][1])

Mat(p1, p2, p3) ==
    << <<p1[1], p2[1], p3[1]>>,
       <<p1[2], p2[2], p3[2]>>,
       <<1, 1, 1>> >>

\* a bug: the absolute value forgotten
area_sin_abs(p1, p2, p3) == Det3(Mat(p1, p2, p3))

\* the area in half units: the value returned is area_triangulo / 2
area_triangulo(p1, p2, p3) == Abs(Det3(Mat(p1, p2, p3)))

-----------------------------------------------------------------------------
(* np.isclose on half units of the grid 10^-k m                            *)
(*   |a - b| * u^2 / 2 <= 10^-EpsilonExp + |b| * u^2 / (2 * RtolInv),      *)
(*   u^2 = 10^(-2k)                                                        *)
(* <=> |a - b| <= 2 * 10^(2k - EpsilonExp) + |b| / RtolInv.                *)
(* For the grids of Escalas the first term is an integer (k = 5) or below  *)
(* 1 / RtolInv (k = 0), so the integer form below is exact.                *)

EpsilonExp == 10

RtolInv == 100000

Escalas == {0, 5}

AtolMedios(k) ==
    IF 2 * k >= EpsilonExp THEN 2 * Pot10(2 * k - EpsilonExp) ELSE 0

isclose(a, b, k) == Abs(a - b) - AtolMedios(k) <= Abs(b) \div RtolInv

-----------------------------------------------------------------------------
(* clasificar_punto *)

\* a bug: the area-sum test made before the zero-sub-area test
clasificar_interior_primero(p, a, b, c, k) ==
    LET A  == area_triangulo(a, b, c)
        A1 == area_triangulo(p, b, c)
        A2 == area_triangulo(a, p, c)
        A3 == area_triangulo(a, b, p)
        suma == A1 + A2 + A3
    IN  IF isclose(suma, A, k) THEN "Interior"
        ELSE IF isclose(A1, 0, k) \/ isclose(A2, 0, k) \/ isclose(A3, 0, k)
             THEN "Frontera"
        ELSE "Exterior"

\* a bug: the second sub-triangle taken on the wrong vertex (b for c)
clasificar_subarea_repetida(p, a, b, c, k) ==
    LET A  == area_triangulo(a, b, c)
        A1 == area_triangulo(p, b, c)
        A2 == area_triangulo(a, p, b)
        A3 == area_triangulo(a, b, p)
        suma == A1 + A2 + A3
    IN  IF isclose(A1, 0, k) \/ isclose(A2, 0, k) \/ isclose(A3, 0, k)
        THEN "Frontera"
        ELSE IF isclose(suma, A, k) THEN "Interior"
        ELSE "Exterior"

clasificar_punto(p, a, b, c, k) ==
    LET A  == area_triangulo(a, b, c)
        A1 == area_triangulo(p, b, c)
        A2 == area_triangulo(a, p, c)
        A3 == area_triangulo(a, b, p)
        suma == A1 + A2 + A3
    IN  IF isclose(A1, 0, k) \/ isclose(A2, 0, k) \/ isclose(A3, 0, k)
        THEN "Frontera"
        ELSE IF isclose(suma, A, k) THEN "Interior"
        ELSE "Exterior"

-----------------------------------------------------------------------------
(* The pure geometric functions applied to inputs drawn from bounded sets *)

Puntos == (0 .. GridMax) \X (0 .. GridMax)

\* the end-to-end example of the specification, and a large triangle
EjemploA == <<0, 0>>
EjemploB == <<0, 100>>
EjemploC == <<100, 0>>
EjemploPuntos == {<<10, 10>>, <<0, 50>>, <<200, 200>>, <<0, 200>>}
GrandeB == <<1000, 1>>
GrandeC == <<1, 1000>>
GrandePuntos == {<<1, 0>>, <<1, 1>>, <<0, 0>>}

Entradas ==
    (Puntos \X Puntos \X Puntos \X Puntos)
    \cup {<<EjemploA, EjemploB, EjemploC, p>> : p \in EjemploPuntos}
    \cup {<<EjemploA, GrandeB, GrandeC, p>> : p \in GrandePuntos}

\* the six orders of the arguments of area_triangulo: identity, the two
\* cyclic permutations, the three transpositions
Permutaciones(a, b, c) ==
    << <<a, b, c>>, <<b, c, a>>, <<c, a, b>>,
       <<b, a, c>>, <<a, c, b>>, <<c, b, a>> >>

Clasificar ==
    /\ resultado = <<>>
    /\ resultado' = <<clasificar_punto(gp, ga, gb, gc, escala)>>
    /\ UNCHANGED <<mainVars, escala, ga, gb, gc, gp, areas>>

CalcularAreas ==
    /\ areas = <<>>
    /\ areas' = [i \in 1 .. 6 |->
                   LET t == Permutaciones(ga, gb, gc)[i]
                   IN  area_triangulo(t[1], t[2], t[3])]
    /\ UNCHANGED <<mainVars, escala, ga, gb, gc, gp, resultado>>

-----------------------------------------------------------------------------
(* Plane geometry, stated without determinants of 3x3 matrices: what the   *)
(* claims mean by "on an edge", "strictly inside" and "outside".           *)

Orient(a, b, p) ==
    (b[1] - a[1]) * (p[2] - a[2]) - (b[2] - a[2]) * (p[1] - a[1])

Entre(x, u, v) == (u <= x /\ x <= v) \/ (v <= x /\ x <= u)

EnSegmento(p, a, b) ==
    /\ Orient(a, b, p) = 0
    /\ Entre(p[1], a[1], b[1])
    /\ Entre(p[2], a[2], b[2])

NoDegenerado(a, b, c) == Orient(a, b, c) # 0

EnBorde(p, a, b, c) ==
    EnSegmento(p, a, b) \/ EnSegmento(p, b, c) \/ EnSegmento(p, c, a)

EstrictamenteDentro(p, a, b, c) ==
    \/ Orient(a, b, p) > 0 /\ Orient(b, c, p) > 0 /\ Orient(c, a, p) > 0
    \/ Orient(a, b, p) < 0 /\ Orient(b, c, p) < 0 /\ Orient(c, a, p) < 0

Fuera(p, a, b, c) ==
    ~EnBorde(p, a, b, c) /\ ~EstrictamenteDentro(p, a, b, c)

\* the tolerance of 1e-10 m^2 in half units of the grid 10^-k m: 2e-10 on
\* the metre grid (no half unit is that small), 2 on the grid of 10^-5 m
Tolerancia(k) == IF k = 5 THEN 2 ELSE 0

\* every sub-triangle of p is larger than the tolerance
LejosDeLosBordes(p, a, b, c, k) ==
    /\ Abs(Orient(a, b, p)) > Tolerancia(k)
    /\ Abs(Orient(b, c, p)) > Tolerancia(k)
    /\ Abs(Orient(c, a, p)) > Tolerancia(k)

EsEjemplo == escala = 0 /\ ga = EjemploA /\ gb = EjemploB /\ gc = EjemploC

-----------------------------------------------------------------------------
(* The collaborators of main(): the geocoder, the geodesic distance, the   *)
(* plots.  Their answers are inputs of the model.                          *)

\* what the user can type at a prompt for a place; "" is the empty input
Lugares == {"A", "B", "C", "P", "X", "Z"}

Ninguno == <<>>

\* geolocator.geocode(name): Ninguno (None) or a location <<latitude, longitude>>
\* in degrees.  "X" is a location outside the valid ranges, "Z" is not found.
geocode(nombre) ==
    CASE nombre = "A" -> <<0, 0>>
      [] nombre = "B" -> <<0, 4>>
      [] nombre = "C" -> <<40, 0>>
      [] nombre = "P" -> <<20, 1>>
      [] nombre = "X" -> <<100, 200>>
      [] OTHER -> Ninguno

\* geod.Inverse(...)['s12']: the distances are answers of the collaborator.
\* They are not tied to the locations: every triple over these values can be
\* returned, which covers whatever the collaborator returns for the places.
Distancias == {0, 10, 25}

-----------------------------------------------------------------------------
(* transformacion_coordenada *)
(* x = R * dlon * cos((lat0 + lat1) / 2), y = R * dlat, angles in radians. *)
(* The model's unit of length is one hundredth of a degree of arc,         *)
(* R * (pi / 180) / 100 metres, so that y = 100 * dlat and                 *)
(* x = dlon * (100 * cos(.)) with dlat, dlon in degrees; 100 * cos is      *)
(* rounded to an integer.                                                  *)

\* round(100 * cos(h / 2 degrees)) for the sums h = lat0 + lat1 of the model
CosCent(h) ==
    CASE h = 0   -> 100
      [] h = 20  -> 98
      [] h = 40  -> 94
      [] h = 60  -> 87
      [] h = 80  -> 77
      [] h = 100 -> 64
      [] h = 120 -> 50
      [] h = 140 -> 34
      [] h = 200 -> -17

transformacion_coordenada(p, p0) ==
    LET dlat == p[1] - p0[1]
        dlon == p[2] - p0[2]
        x == dlon * CosCent(p0[1] + p[1])
        y == 100 * dlat
    IN  <<x, y>>

\* the planar grid of main() is coarser than a metre: the tolerance
\* 10^-EpsilonExp m^2 is below half a cell, as on the grid of exponent 0
EscalaMain == 0

-----------------------------------------------------------------------------
(* The triangle inequality test and Heron's formula of main() *)

\* a bug: the test made with < instead of <=
DegeneradoEstricto(d1, d2, d3) ==
    d1 + d2 < d3 \/ d2 + d3 < d1 \/ d3 + d1 < d2

Degenerado(d1, d2, d3) ==
    d1 + d2 <= d3 \/ d2 + d3 <= d1 \/ d3 + d1 <= d2

\* s = (d1 + d2 + d3) / 2, area = (s (s - d1) (s - d2) (s - d3)) ** 0.5.
\* The model keeps 16 * area^2 = 2s (2s - 2 d1) (2s - 2 d2) (2s - 2 d3).
Heron(d1, d2, d3) ==
    LET s2 == d1 + d2 + d3
    IN  s2 * (s2 - 2 * d1) * (s2 - 2 * d2) * (s2 - 2 * d3)

-----------------------------------------------------------------------------
(* pandas DataFrames: a record of columns, each a sequence *)

crear_dataframes(locs, names, d) ==
    LET p0 == locs[1]
        coords_transf == [i \in 1 .. Len(locs) |->
                             transformacion_coordenada(locs[i], p0)]
    IN  [nombre   |-> names,
         latitud  |-> [i \in 1 .. Len(locs) |-> locs[i][1]],
         longitud |-> [i \in 1 .. Len(locs) |-> locs[i][2]],
         x_transf |-> [i \in 1 .. Len(locs) |-> coords_transf[i][1]],
         y_transf |-> [i \in 1 .. Len(locs) |-> coords_transf[i][2]],
         distancia_desde_origen |-> <<0, d[1], d[3]>>]

\* pd.DataFrame(columns=[...]): no rows
DataFrameVacio ==
    [nombre |-> <<>>, latitud |-> <<>>, longitud |-> <<>>,
     x_transf |-> <<>>, y_transf |-> <<>>, clasificacion |-> <<>>]

NuevoPunto(nombre, p, v, res) ==
    [nombre |-> <<nombre>>, latitud |-> <<p[1]>>, longitud |-> <<p[2]>>,
     x_transf |-> <<v[1]>>, y_transf |-> <<v[2]>>, clasificacion |-> <<res>>]

NumFilas(df) == Len(df.nombre)

empty(df) == NumFilas(df) = 0

\* a bug: the new rows put first
concat_al_inicio(df, nuevo) == [c \in DOMAIN df |-> nuevo[c] \o df[c]]

\* pd.concat([df, nuevo], ignore_index=True)
concat(df, nuevo) == [c \in DOMAIN df |-> df[c] \o nuevo[c]]

\* df.to_dict(orient='records'): one record per row
to_dict(df) == [i \in 1 .. NumFilas(df) |-> [c \in DOMAIN df |-> df[c][i]]]

-----------------------------------------------------------------------------
(* exportar_a_json: the record written to the file and returned *)

Suma3(d) == d[1] + d[2] + d[3]

DatosBase(dfp, datos_triangulo) ==
    [fecha_creacion |-> "ahora",
     triangulo |->
        [puntos |-> to_dict(dfp),
         distancias |->
            [punto1_punto2 |-> datos_triangulo.distancias[1],
             punto2_punto3 |-> datos_triangulo.distancias[2],
             punto3_punto1 |-> datos_triangulo.distancias[3]],
         perimetro |-> Suma3(datos_triangulo.distancias),
         area_heron |-> datos_triangulo.area_heron,
         area_determinante |-> datos_triangulo.area_determinante]]

\* a bug: the key written whenever the DataFrame exists, empty or not
exportar_siempre(dfp, dfc, datos_triangulo) ==
    DatosBase(dfp, datos_triangulo)
        @@ ("puntos_clasificados" :> to_dict(dfc[1]))

\* dfc is <<>> (None) or <<DataFrame>>
exportar_a_json(dfp, dfc, datos_triangulo) ==
    IF dfc # <<>> /\ ~empty(dfc[1])
    THEN DatosBase(dfp, datos_triangulo)
            @@ ("puntos_clasificados" :> to_dict(dfc[1]))
    ELSE DatosBase(dfp, datos_triangulo)

-----------------------------------------------------------------------------
(* main() *)

InitMain ==
    /\ pc = "lugares"
    /\ locations = <<>>
    /\ location_names = <<>>
    /\ distancias = <<>>
    /\ area_heron = <<>>
    /\ area_determinante = <<>>
    /\ vertices = <<>>
    /\ df_puntos = <<>>
    /\ df_clasificados = <<>>
    /\ datos_json = <<>>
    /\ salida = "geolocalizador inicializado"
    /\ llamadas = {}

Init ==
    /\ InitMain
    /\ escala = EscalaMain
    /\ ga = <<0, 0>> /\ gb = <<0, 0>> /\ gc = <<0, 0>> /\ gp = <<0, 0>>
    /\ resultado = <<>>
    /\ areas = <<>>

\* the vertex loop: for i in range(1, 4): while True: ...
IngresarLugarVacio ==
    /\ pc = "lugares"
    /\ salida' = "cadena vacia"
    /\ UNCHANGED <<pc, locations, location_names, distancias, area_heron,
                   area_determinante, vertices, df_puntos, df_clasificados,
                   datos_json, llamadas, escala, geomVars>>

IngresarLugarEncontrado ==
    /\ pc = "lugares"
    /\ \E coordenada \in Lugares :
          LET location == geocode(coordenada)
          IN  /\ location # Ninguno
              /\ locations' = Append(locations, location)
              /\ location_names' = Append(location_names, coordenada)
    /\ pc' = IF Len(locations') = 3 THEN "distancias" ELSE "lugares"
    /\ salida' = "coordenadas"
    /\ UNCHANGED <<distancias, area_heron, area_determinante, vertices,
                   df_puntos, df_clasificados, datos_json, llamadas, escala,
                   geomVars>>

\* a bug: the name kept although the place was not found
IngresarLugarNoEncontradoAgrega ==
    /\ pc = "lugares"
    /\ \E coordenada \in Lugares :
          /\ geocode(coordenada) = Ninguno
          /\ location_names' = Append(location_names, coordenada)
    /\ salida' = "no encontrado"
    /\ UNCHANGED <<pc, locations, distancias, area_heron, area_determinante,
                   vertices, df_puntos, df_clasificados, datos_json, llamadas,
                   escala, geomVars>>

IngresarLugarNoEncontrado ==
    /\ pc = "lugares"
    /\ \E coordenada \in Lugares : geocode(coordenada) = Ninguno
    /\ salida' = "no encontrado"
    /\ UNCHANGED <<pc, locations, location_names, distancias, area_heron,
                   area_determinante, vertices, df_puntos, df_clasificados,
                   datos_json, llamadas, escala, geomVars>>

\* geocode raises: except Exception as e: print(...) and the loop goes on
IngresarLugarFalla ==
    /\ pc = "lugares"
    /\ salida' = "error"
    /\ UNCHANGED <<pc, locations, location_names, distancias, area_heron,
                   area_determinante, vertices, df_puntos, df_clasificados,
                   datos_json, llamadas, escala, geomVars>>

CalcularDistancias ==
    /\ pc = "distancias"
    /\ \E d1 \in Distancias, d2 \in Distancias, d3 \in Distancias :
          distancias' = <<d1, d2, d3>>
    /\ llamadas' = llamadas \cup {"Inverse"}
    /\ salida' = "distancias"
    /\ pc' = "validar"
    /\ UNCHANGED <<locations, location_names, area_heron, area_determinante,
                   vertices, df_puntos, df_clasificados, datos_json, escala,
                   geomVars>>

\* lines 366-393: both areas, the DataFrames, datos_triangulo
Establecer ==
    LET p0 == locations[1]
        v0 == transformacion_coordenada(locations[1], p0)
        v1 == transformacion_coordenada(locations[2], p0)
        v2 == transformacion_coordenada(locations[3], p0)
    IN  /\ area_heron' = <<Heron(distancias[1], distancias[2], distancias[3])>>
        /\ vertices' = <<v0, v1, v2>>
        /\ area_determinante' = <<area_triangulo(v0, v1, v2)>>
        /\ df_puntos' = <<crear_dataframes(locations, location_names, distancias)>>
        /\ df_clasificados' = <<DataFrameVacio>>
        /\ llamadas' = llamadas \cup {"heron", "transformacion_coordenada",
                                      "area_triangulo", "crear_dataframes"}
        /\ salida' = "datos del triangulo"
        /\ pc' = "dibujar"
        /\ UNCHANGED <<locations, location_names, distancias, datos_json,
                       escala, geomVars>>

\* a bug: the error printed and the return forgotten
TrianguloInvalidoSinReturn ==
    /\ pc = "validar"
    /\ Degenerado(distancias[1], distancias[2], distancias[3])
    /\ Establecer

TrianguloInvalido ==
    /\ pc = "validar"
    /\ Degenerado(distancias[1], distancias[2], distancias[3])
    /\ salida' = "triangulo no valido"
    /\ pc' = "fin"
    /\ UNCHANGED <<locations, location_names, distancias, area_heron,
                   area_determinante, vertices, df_puntos, df_clasificados,
                   datos_json, llamadas, escala, geomVars>>

EstablecerTriangulo ==
    /\ pc = "validar"
    /\ ~Degenerado(distancias[1], distancias[2], distancias[3])
    /\ Establecer

DibujarTriangulo ==
    /\ pc = "dibujar"
    /\ llamadas' = llamadas \cup {"dibujar_triangulo_con_datos"}
    /\ pc' = "clasificar"
    /\ UNCHANGED <<locations, location_names, distancias, area_heron,
                   area_determinante, vertices, df_puntos, df_clasificados,
                   datos_json, salida, escala, geomVars>>

\* the plot raises: the except of main() prints and the program ends
DibujarTrianguloFalla ==
    /\ pc = "dibujar"
    /\ llamadas' = llamadas \cup {"dibujar_triangulo_con_datos"}
    /\ salida' = "error en el programa principal"
    /\ pc' = "fin"
    /\ UNCHANGED <<locations, location_names, distancias, area_heron,
                   area_determinante, vertices, df_puntos, df_clasificados,
                   datos_json, escala, geomVars>>

\* the classification loop (lines 399-440), one action per way through an
\* iteration
NoClasificarMas ==
    /\ pc = "clasificar"
    /\ pc' = "exportar"
    /\ salida' = "nombre del archivo"
    /\ UNCHANGED <<locations, location_names, distancias, area_heron,
                   area_determinante, vertices, df_puntos, df_clasificados,
                   datos_json, llamadas, escala, geomVars>>

ClasificarNombreVacio ==
    /\ pc = "clasificar"
    /\ salida' = "cadena vacia"
    /\ UNCHANGED <<pc, locations, location_names, distancias, area_heron,
                   area_determinante, vertices, df_puntos, df_clasificados,
                   datos_json, llamadas, escala, geomVars>>

ClasificarNoEncontrado ==
    /\ pc = "clasificar"
    /\ \E punto_nombre \in Lugares : geocode(punto_nombre) = Ninguno
    /\ salida' = "no encontrado"
    /\ UNCHANGED <<pc, locations, location_names, distancias, area_heron,
                   area_determinante, vertices, df_puntos, df_clasificados,
                   datos_json, llamadas, escala, geomVars>>

\* geocode raises: caught at line 439, nothing else has run
ClasificarGeocodeFalla ==
    /\ pc = "clasificar"
    /\ salida' = "error"
    /\ UNCHANGED <<pc, locations, location_names, distancias, area_heron,
                   area_determinante, vertices, df_puntos, df_clasificados,
                   datos_json, llamadas, escala, geomVars>>

\* lines 413-432: project, classify, append
Registrar(punto_nombre) ==
    LET p_clasificar == geocode(punto_nombre)
        v_clasificar == transformacion_coordenada(p_clasificar, locations[1])
        res == clasificar_punto(v_clasificar, vertices[1], vertices[2],
                                vertices[3], EscalaMain)
        nuevo_punto == NuevoPunto(punto_nombre, p_clasificar, v_clasificar, res)
    IN  /\ p_clasificar # Ninguno
        /\ df_clasificados' = <<concat(df_clasificados[1], nuevo_punto)>>
        /\ llamadas' = llamadas \cup {"clasificar_punto",
                                      "dibujar_triangulo_con_datos"}

ClasificarPunto ==
    /\ pc = "clasificar"
    /\ NumFilas(df_clasificados[1]) < MaxClasificados
    /\ \E punto_nombre \in Lugares : Registrar(punto_nombre)
    /\ salida' = "clasificado"
    /\ UNCHANGED <<pc, locations, location_names, distancias, area_heron,
                   area_determinante, vertices, df_puntos, datos_json, escala,
                   geomVars>>

\* the redraw of line 435 raises after the append of line 432: caught at 439
ClasificarDibujoFalla ==
    /\ pc = "clasificar"
    /\ NumFilas(df_clasificados[1]) < MaxClasificados
    /\ \E punto_nombre \in Lugares : Registrar(punto_nombre)
    /\ salida' = "error"
    /\ UNCHANGED <<pc, locations, location_names, distancias, area_heron,
                   area_determinante, vertices, df_puntos, datos_json, escala,
                   geomVars>>

datos_triangulo ==
    [distancias |-> distancias,
     area_heron |-> area_heron[1],
     area_determinante |-> area_determinante[1]]

\* lines 443-464
Exportar ==
    /\ pc = "exportar"
    /\ datos_json' = <<exportar_a_json(df_puntos[1], df_clasificados,
                                       datos_triangulo)>>
    /\ llamadas' = llamadas \cup {"exportar_a_json"}
    /\ salida' = "analisis estadistico"
    /\ pc' = "fin"
    /\ UNCHANGED <<locations, location_names, distancias, area_heron,
                   area_determinante, vertices, df_puntos, df_clasificados,
                   escala, geomVars>>

\* open() raises inside exportar_a_json: nothing is returned
ExportarFalla ==
    /\ pc = "exportar"
    /\ llamadas' = llamadas \cup {"exportar_a_json"}
    /\ salida' = "error en el programa principal"
    /\ pc' = "fin"
    /\ UNCHANGED <<locations, location_names, distancias, area_heron,
                   area_determinante, vertices, df_puntos, df_clasificados,
                   datos_json, escala, geomVars>>

Next ==
    \/ IngresarLugarVacio
    \/ IngresarLugarEncontrado
    \/ IngresarLugarNoEncontrado
    \/ IngresarLugarFalla
    \/ CalcularDistancias
    \/ TrianguloInvalido
    \/ EstablecerTriangulo
    \/ DibujarTriangulo
    \/ DibujarTrianguloFalla
    \/ NoClasificarMas
    \/ ClasificarNombreVacio
    \/ ClasificarNoEncontrado
    \/ ClasificarGeocodeFalla
    \/ ClasificarPunto
    \/ ClasificarDibujoFalla
    \/ Exportar
    \/ ExportarFalla

Spec == Init /\ [][Next]_vars

-----------------------------------------------------------------------------
(* The specification of the pure functions *)

InitGeom ==
    /\ InitMain
    /\ escala \in Escalas
    /\ \E t \in Entradas :
          ga = t[1] /\ gb = t[2] /\ gc = t[3] /\ gp = t[4]
    /\ resultado = <<>>
    /\ areas = <<>>

NextGeom == Clasificar \/ CalcularAreas

SpecGeom == InitGeom /\ [][NextGeom]_vars

-----------------------------------------------------------------------------
(* Claims about main() *)

ViolaDesigualdad ==
    /\ distancias # <<>>
    /\ \/ distancias[1] + distancias[2] <= distancias[3]
       \/ distancias[2] + distancias[3] <= distancias[1]
       \/ distancias[3] + distancias[1] <= distancias[2]

Filas == IF df_clasificados = <<>> THEN <<>> ELSE to_dict(df_clasificados[1])

\* C1: a run whose three distances violate the strict triangle inequality is
\* rejected before any area is computed: neither area is evaluated, nothing
\* of the triangle is stored, and neither the classification loop nor the
\* export is ever reached.
C1_DegeneradoRechazado ==
    ViolaDesigualdad =>
        /\ pc \in {"validar", "fin"}
        /\ pc = "fin" => salida = "triangulo no valido"
        /\ area_heron = <<>>
        /\ area_determinante = <<>>
        /\ vertices = <<>>
        /\ df_puntos = <<>>
        /\ df_clasificados = <<>>
        /\ datos_json = <<>>
        /\ llamadas \subseteq {"Inverse"}

C1_Witness ==
    /\ distancias = <<10, 10, 25>>
    /\ pc = "fin"
    /\ salida = "triangulo no valido"

Establecido ==
    /\ Len(locations) = 3
    /\ distancias # <<>>
    /\ ~ViolaDesigualdad
    /\ area_heron # <<>>
    /\ area_determinante # <<>>
    /\ vertices # <<>>
    /\ {"heron", "area_triangulo"} \subseteq llamadas

\* C5: clasificar_punto is called, a row is appended to the classified
\* points and exportar_a_json is called only after the three vertices have
\* been obtained, the triangle inequality has been validated and both areas
\* have been computed.
C5_SoloConTriangulo ==
    (\/ pc \in {"clasificar", "exportar"}
     \/ "clasificar_punto" \in llamadas
     \/ "exportar_a_json" \in llamadas
     \/ Len(Filas) > 0
     \/ datos_json # <<>>)
    => Establecido

C5_Witness ==
    /\ "clasificar_punto" \in llamadas
    /\ Len(Filas) > 0
    /\ datos_json # <<>>

Clases == {"Interior", "Frontera", "Exterior"}

EsRegistroDe(fila, nombre) ==
    /\ DOMAIN fila = {"nombre", "latitud", "longitud", "x_transf", "y_transf",
                      "clasificacion"}
    /\ fila.nombre = nombre
    /\ fila.latitud = geocode(nombre)[1]
    /\ fila.longitud = geocode(nombre)[2]
    /\ fila.clasificacion \in Clases

\* C6: the classified points are append-only: the sequence is empty when the
\* triangle is established, every step leaves the rows already recorded in
\* place and in order and adds at most one row, at the end, and a successful
\* classification adds exactly one record (name, lat, lon, x, y, class).
C6_SoloAgrega ==
    [][/\ (df_clasificados = <<>> /\ df_clasificados' # <<>>) => Filas' = <<>>
       /\ df_clasificados # <<>> => df_clasificados' # <<>>
       /\ Len(Filas') \in {Len(Filas), Len(Filas) + 1}
       /\ SubSeq(Filas', 1, Len(Filas)) = Filas
       /\ (pc = "clasificar" /\ salida' = "clasificado") =>
             /\ Len(Filas') = Len(Filas) + 1
             /\ \E n \in Lugares : EsRegistroDe(Filas'[Len(Filas')], n)]_vars

C6_Witness ==
    /\ Len(Filas) = 2
    /\ Filas[1].nombre # Filas[2].nombre
    /\ pc = "fin"

\* C7 (as claimed): an iteration of the classification loop that fails (empty
\* name, place not found, an exception anywhere in the iteration) leaves the
\* classified points and the triangle data as they were, and the loop goes on.
C7_FalloSinEfecto ==
    [][(pc = "clasificar"
            /\ salida' \in {"cadena vacia", "no encontrado", "error"})
       => /\ df_clasificados' = df_clasificados
          /\ UNCHANGED <<locations, location_names, distancias, area_heron,
                         area_determinante, vertices, df_puntos>>
          /\ pc' = "clasificar"]_vars

CoordenadaValida(lat, lon) ==
    /\ -90 <= lat /\ lat <= 90
    /\ -180 <= lon /\ lon <= 180

\* C8 (as claimed): no point with a latitude outside [-90, 90] or a longitude
\* outside [-180, 180] is stored as a vertex, projected or recorded as a
\* classified point.
C8_CoordenadasValidas ==
    /\ \A i \in 1 .. Len(locations) :
          CoordenadaValida(locations[i][1], locations[i][2])
    /\ \A i \in 1 .. Len(Filas) :
          CoordenadaValida(Filas[i].latitud, Filas[i].longitud)

\* C9: the exported record has the key "puntos_clasificados" if and only if
\* at least one point was classified in the session; when present it lists
\* the recorded points, field by field, in the order of classification.
C9_ClaveSiHayPuntos ==
    datos_json # <<>> =>
        LET j == datos_json[1]
            df == df_clasificados[1]
        IN  /\ ("puntos_clasificados" \in DOMAIN j)
                  <=> ("clasificar_punto" \in llamadas)
            /\ ("puntos_clasificados" \in DOMAIN j) <=> (NumFilas(df) >= 1)
            /\ ("puntos_clasificados" \in DOMAIN j) =>
                  /\ Len(j.puntos_clasificados) = NumFilas(df)
                  /\ \A i \in 1 .. NumFilas(df) :
                        /\ j.puntos_clasificados[i].nombre = df.nombre[i]
                        /\ j.puntos_clasificados[i].latitud = df.latitud[i]
                        /\ j.puntos_clasificados[i].longitud = df.longitud[i]
                        /\ j.puntos_clasificados[i].x_transf = df.x_transf[i]
                        /\ j.puntos_clasificados[i].y_transf = df.y_transf[i]
                        /\ j.puntos_clasificados[i].clasificacion
                              = df.clasificacion[i]

C9_Witness ==
    /\ datos_json # <<>>
    /\ "puntos_clasificados" \in DOMAIN datos_json[1]
    /\ Len(datos_json[1].puntos_clasificados) = 2

-----------------------------------------------------------------------------
(* Claims about the pure functions *)

Clasificado == resultado # <<>> /\ NoDegenerado(ga, gb, gc)

C3_FueraEsExterior ==
    Clasificado =>
        /\ Fuera(gp, ga, gb, gc) => resultado[1] = "Exterior"
        /\ resultado[1] = "Frontera" => EnBorde(gp, ga, gb, gc)

\* the facts of the example (0,0), (0,100), (100,0): area 5000 (10000 half
\* units), (10,10) "Interior", (0,50) "Frontera"
HechosDelEjemplo ==
    EsEjemplo =>
        /\ areas # <<>> => areas[1] = 10000
        /\ (resultado # <<>> /\ gp = <<10, 10>>) => resultado[1] = "Interior"
        /\ (resultado # <<>> /\ gp = <<0, 50>>) => resultado[1] = "Frontera"

\* C4 (as claimed): for a non-degenerate triangle, every point strictly inside
\* the triangle is classified "Interior"; and the facts of the example hold.
C4_DentroEsInterior ==
    /\ (Clasificado /\ EstrictamenteDentro(gp, ga, gb, gc))
          => resultado[1] = "Interior"
    /\ HechosDelEjemplo

\* C4 (amended): for a non-degenerate triangle, every point strictly inside
\* the triangle whose three sub-triangles each have an area above the
\* tolerance of 1e-10 is classified "Interior"; and the facts of the example
\* hold.
C4_DentroLejosEsInterior ==
    /\ (Clasificado /\ EstrictamenteDentro(gp, ga, gb, gc)
            /\ LejosDeLosBordes(gp, ga, gb, gc, escala))
          => resultado[1] = "Interior"
    /\ HechosDelEjemplo

C4_Witness ==
    /\ Clasificado
    /\ escala = 5
    /\ gp \in Puntos
    /\ EstrictamenteDentro(gp, ga, gb, gc)
    /\ LejosDeLosBordes(gp, ga, gb, gc, escala)
    /\ resultado[1] = "Interior"

-----------------------------------------------------------------------------
(* Claim about the vertex loop of main() *)

ListasParejas ==
    /\ Len(location_names) = Len(locations)
    /\ Len(locations) <= 3
    /\ \A i \in 1 .. Len(locations) :
          /\ geocode(location_names[i]) # Ninguno
          /\ locations[i] = geocode(location_names[i])

SoloConTresLugares ==
    /\ pc = "lugares" => Len(locations) < 3
    /\ (pc # "lugares" \/ distancias # <<>> \/ llamadas # {})
          => Len(locations) = 3

\* C11: in the vertex loop an empty input, a name that is not found or an
\* exception adds nothing and prompts again for the same vertex; the lists of
\* locations and of names always have the same length and grow together, by
\* one found place at the end per successful lookup; the distances and the
\* validation start only when exactly three locations are held, and the
\* lists never change afterwards.
C11_TresLugaresResueltos ==
    /\ [](ListasParejas /\ SoloConTresLugares)
    /\ [][/\ (pc = "lugares"
                 /\ salida' \in {"cadena vacia", "no encontrado", "error"})
             => /\ UNCHANGED <<locations, location_names>>
                /\ pc' = "lugares"
          /\ (pc = "lugares" /\ salida' = "coordenadas")
             => \E n \in Lugares :
                   /\ geocode(n) # Ninguno
                   /\ locations' = Append(locations, geocode(n))
                   /\ location_names' = Append(location_names, n)
          /\ pc # "lugares" => UNCHANGED <<locations, location_names>>]_vars

C11_Witness ==
    /\ pc = "lugares"
    /\ Len(locations) = 2
    /\ location_names[1] # location_names[2]
    /\ salida = "no encontrado"

=============================================================================
